---- MODULE Spec2Model ----
(***************************************************************************)
(* Model of impresso-content-auth: the authorization handler auth_check    *)
(* (server.py), the strategy registries of the DI container (di.py), the   *)
(* token extractors and matchers, and the quota checker.                   *)
(*                                                                         *)
(* Conventions.                                                            *)
(*  - Python None is the string None; an absent header that the code reads *)
(*    with .get(name, "") is the empty sequence.                           *)
(*  - A header value that the code parses (x-original-uri, x-prefix-strip) *)
(*    is a sequence of characters; a run of characters that holds none of  *)
(*    the separators "/", ",", "-", "?", "#", "." is written as one        *)
(*    element.                                                             *)
(*  - A token is a record [kind, s, bits]: kind "none" is None, "str" a    *)
(*    string s, "mask" a BitMask64 given by the set of its set bits.       *)
(*  - An operator that models a call returns [exc, val]: exc = NoExc when  *)
(*    the call returns val, else the name of the exception it raises.      *)
(*  - The handler is modelled for every container configuration it can be  *)
(*    handed: app.state.container is assigned at server.py:41-42, before   *)
(*    lifespan walks the providers.                                        *)
(***************************************************************************)
EXTENDS Integers, Sequences, FiniteSets, TLC

None == "None"
NoExc == "-"

(***************************************************************************)
(* Bounds of the model.                                                    *)
(***************************************************************************)
\* quota_limit of RedisQuotaChecker (redis.quota_limit), kept small
QuotaLimit == 1
\* window_seconds of RedisQuotaChecker (redis.window_days * 86400), kept small
WindowSeconds == 2
\* the clock int(time()) runs from 0 to MaxTime
MaxTime == 3

(***************************************************************************)
(* Generic sequence helpers (Python str methods on character sequences).   *)
(***************************************************************************)
\* s[n:]
DropFirst(s, n) == IF n >= Len(s) THEN <<>> ELSE SubSeq(s, n + 1, Len(s))

\* s.startswith(p)
StartsWith(s, p) == Len(p) <= Len(s) /\ SubSeq(s, 1, Len(p)) = p

RECURSIVE LStrip(_, _)
\* s.lstrip(c)
LStrip(s, c) == IF s # <<>> /\ Head(s) = c THEN LStrip(Tail(s), c) ELSE s

RECURSIVE RStrip(_, _)
\* s.rstrip(c)
RStrip(s, c) ==
    IF s # <<>> /\ s[Len(s)] = c THEN RStrip(SubSeq(s, 1, Len(s) - 1), c) ELSE s

\* s.strip(c)
Strip(s, c) == RStrip(LStrip(s, c), c)

RECURSIVE SplitAcc(_, _, _)
SplitAcc(s, c, cur) ==
    IF s = <<>> THEN <<cur>>
    ELSE IF Head(s) = c THEN <<cur>> \o SplitAcc(Tail(s), c, <<>>)
    ELSE SplitAcc(Tail(s), c, Append(cur, Head(s)))

\* s.split(c): the sequence of the pieces of s between occurrences of c
Split(s, c) == SplitAcc(s, c, <<>>)

(***************************************************************************)
(* BitMask64 (utils/bitmap.py): a 64-bit mask, held as the set of the      *)
(* positions of its set bits, bit 0 being the least significant.           *)
(***************************************************************************)
RECURSIVE BitsOfNat(_, _)
BitsOfNat(n, pos) ==
    IF n = 0 THEN {}
    ELSE (IF n % 2 = 1 THEN {pos} ELSE {}) \cup BitsOfNat(n \div 2, pos + 1)

\* BitMask64(int): the bits of an unsigned integer
BitMask64FromInt(n) == BitsOfNat(n, 0)

\* BitMask64(bytes): big-endian, at most 8 bytes, zero-padded on the left
BitMask64FromBytes(bytes) ==
    UNION { { b + 8 * (Len(bytes) - i) : b \in BitsOfNat(bytes[i], 0) } :
            i \in 1..Len(bytes) }

MaxMaskBytes == 8

\* is_access_allowed(a, b): (a AND b) != 0
IsAccessAllowed(a, b) == (a \cap b) # {}

NoneTok == [kind |-> "none", s |-> "", bits |-> {}]
StrTok(x) == [kind |-> "str", s |-> x, bits |-> {}]
MaskTok(b) == [kind |-> "mask", s |-> "", bits |-> b]

Ret(v) == [exc |-> NoExc, val |-> v]
Raise(e) == [exc |-> e, val |-> NoneTok]

(***************************************************************************)
(* Configuration (di.py AppConfiguration) and the registries (Container).  *)
(***************************************************************************)
\* the option values a deployment may set; None is an option left unset
ConfigSpace ==
    [ static_secret : {None, "s1"},
      static_files_path : {None, "base"},
      jwt_secret : {None, "k1"},
      jwt_verify_audience : {TRUE},
      solr : [ base_url : {"solr"}, content_item_collection : {"ci"},
               username : {None, "usr"}, password : {"pwd"} ],
      redis_url : {None, "redis"} ]

\* the optional features a configuration switches on
Features(cfg) ==
    { f \in {"static_secret", "static_files_path", "jwt_secret", "solr", "redis_url"} :
        CASE f = "static_secret" -> cfg.static_secret # None
          [] f = "static_files_path" -> cfg.static_files_path # None
          [] f = "jwt_secret" -> cfg.jwt_secret # None
          [] f = "solr" -> cfg.solr.username # None
          [] f = "redis_url" -> cfg.redis_url # None }

\* the deployments the model starts from: no feature, one feature, or all
Configs == { cfg \in ConfigSpace : Cardinality(Features(cfg)) \in {0, 1, 5} }

is_manifest_with_secret_enabled(cfg) == cfg.static_files_path # None
is_static_secret_enabled(cfg) == cfg.static_secret # None
is_cookie_bitmap_enabled(cfg) == cfg.jwt_secret # None
is_solr_content_item_enabled(cfg) ==
    /\ cfg.solr.base_url # None
    /\ cfg.solr.content_item_collection # None
    /\ cfg.solr.username # None
    /\ cfg.solr.password # None
is_redis_quota_checker_enabled(cfg) == cfg.redis_url # None

\* Container.quota_checker: the Selector between the two checkers
quota_checker(cfg) ==
    IF is_redis_quota_checker_enabled(cfg) THEN "RedisQuotaChecker"
    ELSE "NullQuotaChecker"

ExtractorNames ==
    { "bearer-token", "manifest-with-secret", "static-secret",
      "content-item-image-bitmap", "content-item-explore-bitmap",
      "cookie-bitmap", "iiif-presentation-manifest" }

\* Container.extractors: the class each name's provider builds, with the
\* keyword arguments the provider passes to its constructor
extractors(cfg) ==
    [ n \in ExtractorNames |->
        CASE n = "bearer-token" ->
               [cls |-> "BearerTokenExtractor", kwargs |-> {}, field |-> None]
          [] n = "manifest-with-secret" ->
               IF is_manifest_with_secret_enabled(cfg)
               THEN [cls |-> "ManifestWithSecretExtractor",
                     kwargs |-> {"base_path"}, field |-> None]
               ELSE [cls |-> "NullExtractorStrategy", kwargs |-> {}, field |-> None]
          [] n = "static-secret" ->
               IF is_static_secret_enabled(cfg)
               THEN [cls |-> "StaticSecretExtractor",
                     kwargs |-> {"secret"}, field |-> None]
               ELSE [cls |-> "NullExtractorStrategy", kwargs |-> {}, field |-> None]
          [] n = "content-item-image-bitmap" ->
               IF is_solr_content_item_enabled(cfg)
               THEN [cls |-> "SolrDocumentExtractor",
                     kwargs |-> {"solr_service", "collection", "field",
                                 "solr_id_field", "id_extractor_func"},
                     field |-> "rights_bm_get_img_l"]
               ELSE [cls |-> "NullExtractorStrategy", kwargs |-> {}, field |-> None]
          [] n = "content-item-explore-bitmap" ->
               IF is_solr_content_item_enabled(cfg)
               THEN [cls |-> "SolrDocumentExtractor",
                     kwargs |-> {"solr_service", "collection", "field",
                                 "solr_id_field", "id_extractor_func"},
                     field |-> "rights_bm_explore_l"]
               ELSE [cls |-> "NullExtractorStrategy", kwargs |-> {}, field |-> None]
          [] n = "cookie-bitmap" ->
               IF is_cookie_bitmap_enabled(cfg)
               THEN [cls |-> "CookieBitmapExtractor",
                     kwargs |-> {"cookie_name", "jwt_secret", "verify_audience"},
                     field |-> None]
               ELSE [cls |-> "NullExtractorStrategy", kwargs |-> {}, field |-> None]
          [] n = "iiif-presentation-manifest" ->
               [cls |-> "IIIFPresentationManifestExtractor",
                kwargs |-> {"url_extractor_func"}, field |-> None] ]

MatcherNames == { "equality", "bitwise-and", "quota" }

\* Container.matchers
matchers(cfg) ==
    [ n \in MatcherNames |->
        CASE n = "equality" -> [cls |-> "EqualityMatcher", kwargs |-> {}]
          [] n = "bitwise-and" -> [cls |-> "BitWiseAndMatcherStrategy", kwargs |-> {}]
          [] n = "quota" ->
               [cls |-> "QuotaMatcher",
                kwargs |-> {"quota_checker", "user_id_extractor",
                            "doc_id_extractor"}] ]

\* the keyword parameters each class's __init__ declares
InitParams(cls) ==
    CASE cls = "BearerTokenExtractor" -> {}
      [] cls = "NullExtractorStrategy" -> {}
      [] cls = "StaticSecretExtractor" -> {"secret"}
      [] cls = "ManifestWithSecretExtractor" -> {"base_path"}
      [] cls = "SolrDocumentExtractor" ->
           {"solr_service", "collection", "id_extractor_func", "field",
            "solr_id_field"}
      [] cls = "CookieBitmapExtractor" ->
           {"cookie_name", "jwt_secret", "jwt_algorithms", "bitmap_key"}
      [] cls = "IIIFPresentationManifestExtractor" ->
           {"url_extractor_func", "metadata_field", "manifest_path", "timeout"}
      [] cls = "EqualityMatcher" -> {}
      [] cls = "BitWiseAndMatcherStrategy" -> {}
      [] cls = "QuotaMatcher" ->
           {"quota_checker", "user_id_extractor", "doc_id_extractor"}

\* calling a provider: providers.Singleton(cls, **kwargs)() raises TypeError
\* when a keyword argument is not a parameter of cls.__init__
Instantiate(p) ==
    IF p.kwargs \subseteq InitParams(p.cls) THEN NoExc ELSE "TypeError"

\* the classes whose __call__ is declared "async def"
IsAsync(cls) ==
    cls \in { "NullExtractorStrategy", "StaticSecretExtractor",
              "SolrDocumentExtractor", "CookieBitmapExtractor",
              "IIIFPresentationManifestExtractor", "CookieUserIdExtractor",
              "IIIFUriDocIdExtractor" }

(***************************************************************************)
(* Requests.  The fields after the path parameters are the headers and     *)
(* the cookie the strategies read.                                         *)
(***************************************************************************)
\* a signed cookie: key is the secret it was signed with, aud and sub are
\* None when the claim is absent, bitmap is the bytes the base64 claim
\* decodes to (has_bitmap: the claim is present and a string)
NoCookie ==
    [ present |-> FALSE, key |-> None, expired |-> FALSE, aud |-> None,
      sub |-> None, has_bitmap |-> FALSE, b64 |-> TRUE, bitmap |-> <<>> ]

\* a signed token: b64 tells whether the bitmap claim is valid base64, bitmap
\* is the bytes it decodes to
Jwt(key, expired, aud, sub, bytes) ==
    [ present |-> TRUE, key |-> key, expired |-> expired, aud |-> aud,
      sub |-> sub, has_bitmap |-> TRUE, b64 |-> TRUE, bitmap |-> bytes ]

\* str.lower() on the scheme word of the Authorization header
Lower(w) == IF w \in {"Bearer", "BEARER", "bearer"} THEN "bearer" ELSE w

(***************************************************************************)
(* utils/jwt_utils.py                                                      *)
(***************************************************************************)
\* validate_jwt: [exc, ok]; ok means the payload is returned, ~ok means None
validate_jwt(token, secret, audience, verify_audience) ==
    IF secret = None
    THEN [exc |-> "TypeError", ok |-> FALSE]   \* jwt.decode refuses a None key
    ELSE IF token.key # secret THEN [exc |-> NoExc, ok |-> FALSE]
    ELSE IF token.expired THEN [exc |-> NoExc, ok |-> FALSE]
    ELSE IF verify_audience /\ audience = None /\ token.aud # None
         THEN [exc |-> NoExc, ok |-> FALSE]
    ELSE IF verify_audience /\ audience # None /\ token.aud # audience
         THEN [exc |-> NoExc, ok |-> FALSE]
    ELSE [exc |-> NoExc, ok |-> TRUE]

\* an audience that names every port the request carries
AudienceWithEveryPort(req) ==
    IF req.x_forwarded_host \notin {None, ""} /\ req.x_forwarded_proto \notin {None, ""}
    THEN req.x_forwarded_proto \o "://" \o req.x_forwarded_host \o
         (IF req.x_forwarded_port \notin {None, ""}
          THEN ":" \o req.x_forwarded_port ELSE "")
    ELSE None

\* the audience both cookie extractors rebuild from the forwarded headers
Audience(req) ==
    IF req.x_forwarded_host \notin {None, ""} /\ req.x_forwarded_proto \notin {None, ""}
    THEN req.x_forwarded_proto \o "://" \o req.x_forwarded_host \o
         (IF req.x_forwarded_port \notin {None, ""} /\
             req.x_forwarded_port \notin {"80", "443"}
          THEN ":" \o req.x_forwarded_port ELSE "")
    ELSE None

(***************************************************************************)
(* strategy/extractor                                                      *)
(***************************************************************************)
\* BearerTokenExtractor.__call__ (a plain def): authorization is the header
\* split at whitespace, <<>> when the header is absent or empty
BearerTokenExtractor(req) ==
    LET parts == req.authorization IN
    IF parts = <<>> THEN Ret(NoneTok)
    ELSE IF Len(parts) # 2 \/ Lower(parts[1]) # "bearer" THEN Ret(NoneTok)
    ELSE Ret(StrTok(parts[2]))

\* StaticSecretExtractor.__call__
StaticSecretExtractor(cfg) == Ret(StrTok(cfg.static_secret))

\* NullExtractorStrategy.__call__
NullExtractorStrategy == Ret(NoneTok)

\* CookieUserIdExtractor.__call__: the sub claim of the validated cookie
CookieUserIdExtractor(req, cfg) ==
    IF ~req.cookie.present THEN Ret(NoneTok)
    ELSE LET v == validate_jwt(req.cookie, cfg.jwt_secret, Audience(req),
                               cfg.jwt_verify_audience) IN
         IF v.exc # NoExc THEN Raise(v.exc)
         ELSE IF ~v.ok THEN Ret(NoneTok)
         ELSE IF req.cookie.sub \in {None, ""} THEN Ret(NoneTok)
         ELSE Ret(StrTok(req.cookie.sub))

\* extract_id_from_x_original_uri_with_iiif (solr_document.py); <<>> is None
RECURSIVE StripEveryPrefix(_, _)
\* a strip that goes on with the entries after the first match
StripEveryPrefix(path, prefixes) ==
    IF prefixes = <<>> THEN path
    ELSE IF StartsWith(path, Head(prefixes))
         THEN StripEveryPrefix(DropFirst(path, Len(Head(prefixes))), Tail(prefixes))
         ELSE StripEveryPrefix(path, Tail(prefixes))

RECURSIVE StripFirstPrefix(_, _)
StripFirstPrefix(path, prefixes) ==
    IF prefixes = <<>> THEN path
    ELSE IF StartsWith(path, Head(prefixes))
         THEN DropFirst(path, Len(Head(prefixes)))
         ELSE StripFirstPrefix(path, Tail(prefixes))

extract_id_from_x_original_uri_with_iiif(req) ==
    LET path == req.x_original_uri IN
    IF path = <<>> THEN <<>>
    ELSE LET stripped ==
                 IF req.x_prefix_strip # <<>>
                 THEN StripFirstPrefix(path, Split(req.x_prefix_strip, ","))
                 ELSE path
             path_components == Split(Strip(stripped, "/"), "/")
         IN  path_components[1]

\* a run of characters matching p\d+
IsPageSuffix(a) == a \in {"p1", "p7"}

\* extract_id_from_x_original_uri_with_iiif_and_wildcard_page_suffix:
\* re.sub(r"-p\d+$", "-*", id)
extract_id_with_wildcard_page_suffix(req) ==
    LET id == extract_id_from_x_original_uri_with_iiif(req) IN
    IF id = <<>> THEN <<>>
    ELSE IF Len(id) >= 2 /\ id[Len(id) - 1] = "-" /\ IsPageSuffix(id[Len(id)])
         THEN SubSeq(id, 1, Len(id) - 1) \o <<"*">>
         ELSE id

\* IIIFUriDocIdExtractor.__call__: the parser does not raise, so the
\* except branch returns nothing else
IIIFUriDocIdExtractor(req) == extract_id_from_x_original_uri_with_iiif(req)

(***************************************************************************)
(* The search index behind SolrService: the documents it holds.  A field   *)
(* value of -1 is a field the document lacks.                              *)
(***************************************************************************)
SolrIndex ==
    { [id |-> <<"d1">>, rights_bm_get_img_l |-> 2, rights_bm_explore_l |-> 1],
      [id |-> <<"d2">>, rights_bm_get_img_l |-> 1, rights_bm_explore_l |-> -1],
      [id |-> <<"d3", "-", "i1">>, rights_bm_get_img_l |-> 3,
       rights_bm_explore_l |-> 0] }

\* the documents a query "id:<q>" selects; a trailing * is a prefix wildcard
QueryMatches(q) ==
    { doc \in SolrIndex :
        IF q[Len(q)] = "*" THEN StartsWith(doc.id, SubSeq(q, 1, Len(q) - 1))
        ELSE doc.id = q }

FieldOf(doc, field) ==
    IF field = "rights_bm_get_img_l" THEN doc.rights_bm_get_img_l
    ELSE doc.rights_bm_explore_l

\* BitMask64(value) for the value of a document field
BitMask64OfField(v) ==
    IF v < 0 THEN Raise("TypeError") ELSE Ret(MaskTok(BitMask64FromInt(v)))

\* SolrDocumentExtractor.__call__: the set of its possible outcomes.  The
\* search is a blocking call: it answers with rows = 1 document, with none,
\* or fails (HTTPStatusError, RequestError), which the extractor lets
\* through.
SolrDocumentExtractor(req, field) ==
    LET doc_id == extract_id_with_wildcard_page_suffix(req) IN
    IF doc_id = <<>> THEN { Ret(NoneTok) }
    ELSE { Raise("HTTPError") } \cup
         (IF QueryMatches(doc_id) = {} THEN { Ret(NoneTok) }
          ELSE { BitMask64OfField(FieldOf(doc, field)) :
                 doc \in QueryMatches(doc_id) })

(***************************************************************************)
(* IIIF presentation manifest extractor.  A URL is the character sequence  *)
(* <<scheme, "://">> \o host \o path.                                      *)
(***************************************************************************)
\* a reconstruction that takes the scheme from x-forwarded-proto as it is
ExtractUrlProtoVerbatim(req) ==
    IF req.x_original_uri = <<>> THEN <<>>
    ELSE IF req.x_forwarded_host \in {None, ""} THEN <<>>
    ELSE <<(IF req.x_forwarded_proto \in {None, ""} THEN "http"
            ELSE req.x_forwarded_proto), "://",
           req.x_forwarded_host>> \o req.x_original_uri

\* extract_url_from_x_original_uri; <<>> is None
extract_url_from_x_original_uri(req) ==
    IF req.x_original_uri = <<>> THEN <<>>
    ELSE IF req.x_forwarded_host \in {None, ""} THEN <<>>
    ELSE <<(IF req.x_forwarded_proto = "https" THEN "https" ELSE "http"), "://",
           req.x_forwarded_host>> \o req.x_original_uri

RECURSIVE TakeUntil(_, _)
\* the longest prefix of s with no character of stops
TakeUntil(s, stops) ==
    IF s = <<>> \/ Head(s) \in stops THEN <<>>
    ELSE <<Head(s)>> \o TakeUntil(Tail(s), stops)

\* urlparse(url): scheme, netloc and path of a URL built as above
UrlParse(url) ==
    LET rest == DropFirst(url, 2)
        netloc == TakeUntil(rest, {"/", "?", "#"})
    IN  [ scheme |-> url[1], netloc |-> netloc,
          path |-> TakeUntil(DropFirst(rest, Len(netloc)), {"?", "#"}) ]

RECURSIVE LastIndexOf(_, _)
\* s.rfind(c), 0 when c does not occur
LastIndexOf(s, c) ==
    IF s = <<>> THEN 0
    ELSE IF s[Len(s)] = c THEN Len(s)
    ELSE LastIndexOf(SubSeq(s, 1, Len(s) - 1), c)

\* IIIFPresentationManifestExtractor._get_manifest_url, for a path without
\* dot segments
ManifestUrl(file_url) ==
    LET u == UrlParse(file_url)
        cut == LastIndexOf(u.path, "/")
    IN  IF cut > 0
        THEN <<u.scheme, "://">> \o u.netloc \o SubSeq(u.path, 1, cut - 1)
             \o <<"/", "manifest.json">>
        ELSE <<u.scheme, "://">> \o u.netloc \o <<"/", "manifest.json">>

\* what the manifest server may answer to the GET of _fetch_manifest:
\* a manifest whose first canvas carries the metadata field with a value
\* BitMask64 accepts (bits) or rejects, a manifest without the field, a body
\* that is not a manifest, a non-200 status, or no answer at all
FetchOutcomes ==
    { [kind |-> "bitmap", bits |-> {0, 1}], [kind |-> "bitmap", bits |-> {1}],
      [kind |-> "bad_bitmap", bits |-> {}], [kind |-> "no_field", bits |-> {}],
      [kind |-> "bad_json", bits |-> {}], [kind |-> "status_404", bits |-> {}],
      [kind |-> "status_500", bits |-> {}], [kind |-> "request_error", bits |-> {}] }

\* IIIFPresentationManifestExtractor.__call__ once the GET is answered
IIIFAfterFetch(o) ==
    CASE o.kind = "bitmap" -> Ret(MaskTok(o.bits))
      [] o.kind = "bad_bitmap" -> Raise("ValueError")
      [] o.kind = "no_field" -> Ret(NoneTok)
      [] o.kind = "bad_json" -> Raise("ValueError")
      [] o.kind = "status_404" -> Ret(NoneTok)
      [] o.kind = "status_500" -> Ret(NoneTok)
      [] o.kind = "request_error" -> Raise("RequestError")

(***************************************************************************)
(* ManifestWithSecretExtractor and the files it reads.  A resolved path is *)
(* the sequence of its component names from the root.                      *)
(***************************************************************************)
\* config.static_files_path as a character sequence
BasePath(cfg) == <<"/", cfg.static_files_path>>

\* the manifest files on disk: content is "secret" (a JSON object whose
\* secret is s), "no_secret" (an object without the key), "not_object"
\* (JSON that is no object) or "bad_json"
FileSystem ==
    { [path |-> << <<"base">>, <<"f", "_manifest.json">> >>,
       content |-> "secret", s |-> "s1"],
      [path |-> << <<"base">>, <<"g", "_manifest.json">> >>,
       content |-> "not_object", s |-> ""],
      [path |-> << <<"base">>, <<"h", "_manifest.json">> >>,
       content |-> "bad_json", s |-> ""],
      [path |-> << <<"base">>, <<"n", "_manifest.json">> >>,
       content |-> "no_secret", s |-> ""],
      [path |-> << <<"etc">>, <<"f", "_manifest.json">> >>,
       content |-> "secret", s |-> "s2"] }

\* os.path.join(a, b)
PathJoin(a, b) ==
    IF StartsWith(b, <<"/">>) THEN b
    ELSE IF a = <<>> \/ a[Len(a)] = "/" THEN a \o b
    ELSE a \o <<"/">> \o b

\* ManifestWithSecretExtractor._uri_to_path
uri_to_path(cfg, uri) ==
    LET uri_path == TakeUntil(uri, {"?", "#"}) IN
    PathJoin(BasePath(cfg),
             IF StartsWith(uri_path, <<"/">>) THEN DropFirst(uri_path, 1)
             ELSE uri_path)

IsNamedComponent(c) == c # <<>> /\ c # <<".">>

\* pathlib.Path(p).parts without the root: empty and "." components dropped
PathParts(p) == SelectSeq(Split(p, "/"), IsNamedComponent)

\* Path.stem: the name without its last suffix
Stem(name) ==
    LET i == LastIndexOf(name, ".") IN
    IF 1 < i /\ i < Len(name) THEN SubSeq(name, 1, i - 1) ELSE name

\* ManifestWithSecretExtractor._get_manifest_path, as path components
get_manifest_path(file_path) ==
    LET parts == PathParts(file_path) IN
    IF parts = <<>> THEN << <<"_manifest.json">> >>
    ELSE SubSeq(parts, 1, Len(parts) - 1)
         \o << Stem(parts[Len(parts)]) \o <<"_manifest.json">> >>

RECURSIVE ResolveDots(_, _)
\* what the file system makes of ".." components
ResolveDots(parts, acc) ==
    IF parts = <<>> THEN acc
    ELSE IF Head(parts) = <<".", ".">>
         THEN ResolveDots(Tail(parts),
                          IF acc = <<>> THEN acc ELSE SubSeq(acc, 1, Len(acc) - 1))
         ELSE ResolveDots(Tail(parts), Append(acc, Head(parts)))

\* the file ManifestWithSecretExtractor tests for existence and opens
ManifestFile(cfg, uri) == ResolveDots(get_manifest_path(uri_to_path(cfg, uri)), <<>>)

\* ManifestWithSecretExtractor.__call__ (a plain def)
ManifestWithSecretExtractor(req, cfg) ==
    IF req.x_original_uri = <<>> THEN Ret(NoneTok)
    ELSE LET found == { f \in FileSystem :
                          f.path = ManifestFile(cfg, req.x_original_uri) } IN
         IF found = {} THEN Ret(NoneTok)
         ELSE LET f == CHOOSE x \in found : TRUE IN
              CASE f.content = "secret" -> Ret(StrTok(f.s))
                [] f.content = "no_secret" -> Ret(NoneTok)
                [] f.content = "bad_json" -> Ret(NoneTok)
                [] f.content = "not_object" -> Raise("AttributeError")

(***************************************************************************)
(* strategy/matcher                                                        *)
(***************************************************************************)
\* EqualityMatcher.__call__: a == b
EqualityMatcher(a, b) == Ret(a = b)

\* BitWiseAndMatcherStrategy.__call__: is_access_allowed raises TypeError
\* on an argument that is no mask, and the matcher turns that into False
BitWiseAndMatcherStrategy(a, b) ==
    IF a.kind = "mask" /\ b.kind = "mask" THEN Ret(IsAccessAllowed(a.bits, b.bits))
    ELSE Ret(FALSE)

\* NullMatcherStrategy.__call__
NullMatcherStrategy(a, b) == Ret(FALSE)

\* a call in which the quota matcher accepts the two tokens: what it
\* returns, a coroutine object, counts as true
CallMatcherAcceptingTokens(cls, a, b) ==
    CASE cls = "EqualityMatcher" -> EqualityMatcher(a, b)
      [] cls = "BitWiseAndMatcherStrategy" -> BitWiseAndMatcherStrategy(a, b)
      [] cls = "NullMatcherStrategy" -> NullMatcherStrategy(a, b)
      [] cls = "QuotaMatcher" -> Ret(TRUE)

\* calling a matcher instance with the two tokens, matcher(a, b):
\* QuotaMatcher.__call__(self, request) takes one argument
CallMatcher(cls, a, b) ==
    CASE cls = "EqualityMatcher" -> EqualityMatcher(a, b)
      [] cls = "BitWiseAndMatcherStrategy" -> BitWiseAndMatcherStrategy(a, b)
      [] cls = "NullMatcherStrategy" -> NullMatcherStrategy(a, b)
      [] cls = "QuotaMatcher" -> [exc |-> "TypeError", val |-> FALSE]

\* CookieBitmapExtractor.__call__: validate_jwt is called without
\* verify_audience, so the audience is always verified
CookieBitmapExtractor(req, cfg) ==
    IF ~req.cookie.present THEN Ret(NoneTok)
    ELSE LET v == validate_jwt(req.cookie, cfg.jwt_secret, Audience(req), TRUE) IN
         IF v.exc # NoExc THEN Raise(v.exc)
         ELSE IF ~v.ok THEN Ret(NoneTok)
         ELSE IF ~req.cookie.has_bitmap THEN Ret(NoneTok)
         ELSE IF ~req.cookie.b64 THEN Raise("binascii.Error")
         ELSE IF Len(req.cookie.bitmap) > MaxMaskBytes THEN Raise("ValueError")
         ELSE Ret(MaskTok(BitMask64FromBytes(req.cookie.bitmap)))

(***************************************************************************)
(* service/quota_checker: the quota state in the remote store, per user:   *)
(* the Bloom filter user:{u}:bloom as the set of its set bits, the counter *)
(* user:{u}:count, and user:{u}:first_access, -1 when the key is absent.   *)
(* The three keys expire together with the window, which is what the reset *)
(* test of the script expresses; the time to live is not a separate state. *)
(***************************************************************************)
Users == {"u1", "u2"}

Docs == { <<"d1">>, <<"d2">>, <<"d4">> }

\* the filter bits a document id hashes to: d4 collides with d1 and d2
BloomBits(doc) ==
    CASE doc = <<"d1">> -> {0, 1}
      [] doc = <<"d2">> -> {2, 3}
      [] doc = <<"d4">> -> {1, 2}
      [] OTHER -> {4, 5}

\* BF.EXISTS
BloomExists(bloom, doc) == BloomBits(doc) \subseteq bloom

\* BF.ADD
BloomAdd(bloom, doc) == bloom \cup BloomBits(doc)

EmptyQuota == [bloom |-> {}, count |-> 0, first_access |-> -1]

\* step 1 of resources/quotaCheck.lua: the window reset
QuotaReset(st, t, window_seconds) ==
    IF st.first_access = -1 \/ t - st.first_access >= window_seconds
    THEN [bloom |-> {}, count |-> 0, first_access |-> t]
    ELSE st

\* steps 2 and 3 of resources/quotaCheck.lua on the state after step 1
QuotaCount(st, doc, quota_limit) ==
    IF BloomExists(st.bloom, doc) THEN [st |-> st, allowed |-> 1]
    ELSE LET added == [st EXCEPT !.bloom = BloomAdd(st.bloom, doc)] IN
         IF st.count < quota_limit
         THEN [st |-> [added EXCEPT !.count = st.count + 1], allowed |-> 1]
         ELSE [st |-> added, allowed |-> 0]

\* resources/quotaCheck.lua with KEYS of one user and
\* ARGV = (doc_id, quota_limit, now, window_seconds): one atomic step
quotaCheckLua(st, doc, quota_limit, t, window_seconds) ==
    QuotaCount(QuotaReset(st, t, window_seconds), doc, quota_limit)

\* how redis_client.eval may end: the script ran, the server answered with
\* an error (redis.ResponseError) before running it, or it was unreachable
EvalOutcomes == {"ran", "ResponseError", "ConnectionError"}

\* RedisQuotaChecker.__call__ given how eval ended and the script's reply
RedisQuotaChecker(outcome, allowed) ==
    CASE outcome = "ran" ->
           [exc |-> NoExc, val |-> IF allowed = 1 THEN "below_quota" ELSE "quota_reached"]
      [] outcome = "ResponseError" -> [exc |-> NoExc, val |-> "below_quota"]
      [] outcome = "ConnectionError" -> [exc |-> "ConnectionError", val |-> None]

\* a checker without a store that always denies
AlwaysReachedChecker == [exc |-> NoExc, val |-> "quota_reached"]

\* NullQuotaChecker.__call__
NullQuotaChecker == [exc |-> NoExc, val |-> "below_quota"]

\* QuotaMatcher.__call__ up to the call of the quota checker: the two
\* sub-extractors run one after the other; decided means the matcher
\* returns True without calling the checker
QuotaMatcherExtract(req, cfg) ==
    LET user == CookieUserIdExtractor(req, cfg)
        doc == IIIFUriDocIdExtractor(req)
    IN  IF user.exc # NoExc
        THEN [decided |-> TRUE, exc |-> user.exc, user |-> None, doc |-> <<>>]
        ELSE [ decided |-> user.val.kind = "none" \/ doc = <<>>,
               exc |-> NoExc,
               user |-> IF user.val.kind = "none" THEN None ELSE user.val.s,
               doc |-> doc ]

\* a quota matcher that fails closed: an error of the checker denies
QuotaMatcherFailsClosed(checked) ==
    IF checked.exc # NoExc THEN FALSE
    ELSE checked.val = "below_quota"

\* QuotaMatcher.__call__ after the checker returned or raised
QuotaMatcherResult(checked) ==
    IF checked.exc # NoExc THEN TRUE
    ELSE checked.val = "below_quota"

(***************************************************************************)
(* The requests the model sends.                                           *)
(***************************************************************************)
MatcherParams == MatcherNames \cup {"nope"}
ExtractorParams == ExtractorNames \cup {"nope"}

AuthorizationHeaders == { <<>>, <<"Bearer", "s1">>, <<"Bearer", "s2">> }

Cookies ==
    { NoCookie, Jwt("k1", FALSE, "https://h", "u1", <<3>>) }

OriginalUris ==
    { <<>>, <<"/", "d1", "/", "i">>, <<"/", "d3", "-", "p7", "/", "i">> }

Forwarded ==
    { [host |-> None, proto |-> None, port |-> None, http_host |-> "h"],
      [host |-> "h", proto |-> "https", port |-> "443", http_host |-> "h"] }

Request(route, m, c, r, auth, cookie, uri, fwd, strip) ==
    [ route |-> route, matcher |-> m, client |-> c, resource |-> r,
      authorization |-> auth, cookie |-> cookie, x_original_uri |-> uri,
      x_forwarded_host |-> fwd.host, x_forwarded_proto |-> fwd.proto,
      x_forwarded_port |-> fwd.port, x_prefix_strip |-> strip,
      host |-> fwd.http_host ]

\* the request fields each strategy reads
Reads(name) ==
    CASE name = "bearer-token" -> {"authorization"}
      [] name = "manifest-with-secret" -> {"x_original_uri"}
      [] name = "content-item-image-bitmap" -> {"x_original_uri"}
      [] name = "content-item-explore-bitmap" -> {"x_original_uri"}
      [] name = "cookie-bitmap" -> {"cookie", "x_forwarded"}
      [] name = "iiif-presentation-manifest" -> {"x_original_uri", "x_forwarded"}
      [] name = "quota" -> {"cookie", "x_original_uri", "x_forwarded"}
      [] OTHER -> {}

\* a request carries the fields one of the strategies it selects reads;
\* the others are left absent
Carries(route, c, r) ==
    Reads(c) \cup Reads(r) \cup (IF route = "quota" THEN Reads("quota") ELSE {})

Requests ==
    { rq \in
        { Request(route, m, c, r, auth, cookie, uri, fwd, <<>>) :
            route \in {"plain", "quota"}, m \in MatcherParams,
            c \in ExtractorParams, r \in ExtractorParams,
            auth \in AuthorizationHeaders, cookie \in Cookies,
            uri \in OriginalUris, fwd \in Forwarded } :
        LET carried == Carries(rq.route, rq.client, rq.resource) IN
        /\ "authorization" \notin carried => rq.authorization = <<>>
        /\ "cookie" \notin carried => rq.cookie = NoCookie
        /\ "x_original_uri" \notin carried => rq.x_original_uri = <<>>
        /\ "x_forwarded" \notin carried => rq.x_forwarded_host = None }

NoReq ==
    Request("none", "", "", "", <<>>, NoCookie, <<>>,
            [host |-> None, proto |-> None, port |-> None, http_host |-> None],
            <<>>)

(***************************************************************************)
(* service/solr.py: SolrService.post_query and its response cache.  A body *)
(* is a dict, the sequence of its <<key, value>> items in insertion order. *)
(* The cache is the sequence of its entries, oldest first.                 *)
(***************************************************************************)
\* TTLCache(maxsize=10000, ttl=3600), scaled down
CacheMaxSize == 2
CacheTtl == 2
\* the number of post_query calls looked at
MaxCalls == 3

\* a cache key formed from the items in the order the caller gave them
InsertionOrder(body) == body

\* json.dumps(json_data, sort_keys=True): the items in the order of their keys
SortKeys(body) ==
    LET order == <<"limit", "offset", "params", "query">>
        item(k) == { body[i] : i \in { j \in DOMAIN body : body[j][1] = k } }
    IN  SelectSeq([i \in DOMAIN order |->
                     IF item(order[i]) = {} THEN <<>>
                     ELSE CHOOSE x \in item(order[i]) : TRUE],
                  LAMBDA x : x # <<>>)

\* _get_post_key(url, json_data), with the url post_query builds (line 117)
get_post_key(cfg, collection, body) ==
    << <<cfg.solr.base_url, "/", collection, "/", "select">>, SortKeys(body) >>

\* the bodies post_query is called with
PostBodies ==
    { << <<"query", "id:d1">>, <<"limit", 1>>, <<"offset", 0>> >>,
      << <<"limit", 1>>, <<"offset", 0>>, <<"query", "id:d1">> >>,
      << <<"query", "id:d2">>, <<"limit", 1>>, <<"offset", 0>> >> }

\* what the index may answer to the POST: a JSON document, an error status,
\* a body that is no JSON, or nothing
PostOutcomes ==
    { [kind |-> "ok", json |-> "j1"], [kind |-> "ok", json |-> "j2"],
      [kind |-> "http_error", json |-> None], [kind |-> "bad_json", json |-> None],
      [kind |-> "request_error", json |-> None] }

\* json.dumps(result); json.loads of it is the second item
Dumps(result) == <<"json", result>>

\* TTLCache.__setitem__ at time t: drop the expired entries, make room by
\* dropping the oldest entry, append the new one
CacheSet(cache, key, val, t) ==
    LET live == SelectSeq(cache, LAMBDA e : t < e.expires)
        others == SelectSeq(live, LAMBDA e : e.key # key)
        room == IF Len(others) = Len(live) /\ Len(live) >= CacheMaxSize
                THEN Tail(others) ELSE others
    IN  Append(room, [key |-> key, val |-> val, expires |-> t + CacheTtl])

\* a call is identified by its collection and the set of items of its body;
\* last is what the last call did, served what the index last answered to a
\* call, when, and under which cache key the answer was stored
NoSolr ==
    [ cache |-> <<>>, calls |-> 0,
      last |-> [ id |-> <<>>, body |-> <<>>, network |-> FALSE,
                 result |-> None, exc |-> NoExc ],
      served |-> [ k \in {} |-> [result |-> None, at |-> 0, body |-> <<>>,
                                 key |-> <<>>] ] ]

\* SolrService.post_query(collection, body) at time t when the index would
\* answer with net: the service afterwards
post_query(sv, cfg, collection, body, net, t) ==
    LET key == get_post_key(cfg, collection, body)
        hit == SelectSeq(sv.cache, LAMBDA e : e.key = key /\ t < e.expires)
        id == <<collection, { body[i] : i \in DOMAIN body }>>
        done(cache, network, result, exc) ==
            [ cache |-> cache, calls |-> sv.calls + 1,
              last |-> [id |-> id, body |-> body, network |-> network,
                        result |-> result, exc |-> exc],
              served |-> IF network /\ exc = NoExc
                         THEN [ k \in DOMAIN sv.served \cup {id} |->
                                  IF k = id
                                  THEN [result |-> result, at |-> t,
                                        body |-> body, key |-> key]
                                  ELSE sv.served[k] ]
                         ELSE sv.served ]
    IN  IF hit # <<>> THEN done(sv.cache, FALSE, hit[1].val[2], NoExc)
        ELSE CASE net.kind = "ok" ->
                    done(CacheSet(sv.cache, key, Dumps(net.json), t), TRUE,
                         net.json, NoExc)
               [] net.kind = "http_error" -> done(sv.cache, TRUE, None, "HTTPError")
               [] net.kind = "bad_json" -> done(sv.cache, TRUE, None, "ValueError")
               [] net.kind = "request_error" ->
                    done(sv.cache, TRUE, None, "RequestError")

(***************************************************************************)
(* State.                                                                  *)
(***************************************************************************)
Slots == {"r1", "r2"}
Sides == {"client", "resource"}

VARIABLES
    config,   \* the container's configuration, fixed at startup
    solr,     \* the SolrService singleton: its response cache, and what
              \* its last post_query did
    now,      \* the clock, int(time())
    quota,    \* the quota state of each user in the remote store
    pc,       \* per request slot: "idle", "quota_eval", "gather", "done",
              \* "cancelled"
    req,      \* per slot: the request being handled
    ext,      \* per slot and side: the extractor call and its task
    resp,     \* per slot: the response, status 0 while there is none
    obs,      \* per slot: what the handler did for the request, and which
              \* of its extractors ended first
    hist      \* the last run of the quota script, and per user the doc
              \* ids it allowed in the user's current window

vars == <<config, solr, now, quota, pc, req, ext, resp, obs, hist>>

\* an extractor call: st is "none" (not called, or a coroutine that was
\* never scheduled), "returned" (a plain def returned val), "created" (a
\* task that has not run yet), "io" (suspended in the manifest GET), "done"
\* (the task returned val), "raised" (exc was raised) or "cancelled"; url
\* is the manifest URL it requested and fetch the answer it got
NoExt ==
    [ st |-> "none", cls |-> "", field |-> None, val |-> NoneTok,
      exc |-> NoExc, url |-> <<>>, fetch |-> None ]

NoResp == [status |-> 0, x_redirect_url |-> None, body |-> ""]

\* server.py:164: the application is built with debug=True
Debug == TRUE

\* what the framework answers when the handler raised exc: with debug the
\* traceback of the exception, without it the text "Internal Server Error"
ErrorResponse(exc) ==
    [ status |-> 500, x_redirect_url |-> None,
      body |-> IF Debug THEN "traceback" ELSE "Internal Server Error" ]

NoObs ==
    [ quota |-> "skipped", quota_user |-> None, quota_doc |-> <<>>,
      quota_exc |-> NoExc, eval |-> NoExc, checker |-> "not_called",
      matcher_called |-> FALSE, matcher_args |-> <<NoneTok, NoneTok>>,
      matcher_ret |-> FALSE, exc |-> NoExc, cancelled |-> FALSE,
      quota_ts |-> 0, first_done |-> None ]

\* a run of the script: before is the user's state it found, t its ARGV now
NoCall ==
    [user |-> None, doc |-> <<>>, verdict |-> None, before |-> EmptyQuota, t |-> 0]

NoHist == [last |-> NoCall, allowed_docs |-> [u \in Users |-> {}]]

Init ==
    /\ config \in Configs
    /\ solr = NoSolr
    /\ now = 0
    /\ quota = [u \in Users |-> EmptyQuota]
    /\ pc = [r \in Slots |-> "idle"]
    /\ req = [r \in Slots |-> NoReq]
    /\ ext = [r \in Slots |-> [w \in Sides |-> NoExt]]
    /\ resp = [r \in Slots |-> NoResp]
    /\ obs = [r \in Slots |-> NoObs]
    /\ hist = NoHist

(***************************************************************************)
(* server.py, auth_check from the extractor lookup to asyncio.gather       *)
(* (lines 95-132), up to the point where the handler responds or suspends. *)
(***************************************************************************)
\* calling an extractor whose __call__ is a plain def: it runs while the
\* arguments of asyncio.gather are evaluated
CallSync(p, rq, cfg) ==
    IF p.cls = "BearerTokenExtractor" THEN BearerTokenExtractor(rq)
    ELSE ManifestWithSecretExtractor(rq, cfg)

\* the argument of asyncio.gather an extractor call yields: the coroutine
\* object of an async def, or the value a plain def returned
GatherArg(p, rq, cfg) ==
    IF IsAsync(p.cls)
    THEN [NoExt EXCEPT !.st = "coro", !.cls = p.cls, !.field = p.field]
    ELSE LET out == CallSync(p, rq, cfg) IN
         [NoExt EXCEPT !.st = IF out.exc = NoExc THEN "returned" ELSE "raised",
                       !.cls = p.cls, !.val = out.val, !.exc = out.exc]

\* asyncio.gather wraps its arguments into tasks from left to right and
\* raises TypeError at the first that is no awaitable; what it wrapped
\* before stays scheduled
Wrapped(a) == [a EXCEPT !.st = "created"]
Unscheduled(a) == IF a.st = "coro" THEN [a EXCEPT !.st = "none"] ELSE a

TokenPath(rq, cfg) ==
    LET ex == extractors(cfg)
        mt == matchers(cfg)
        Respond(status, c, r, exc) ==
            [ pc |-> "done", status |-> status, client |-> c, resource |-> r,
              exc |-> exc ]
    IN
    IF rq.client \notin DOMAIN ex \/ rq.resource \notin DOMAIN ex
    THEN Respond(403, NoExt, NoExt, NoExc)
    ELSE IF Instantiate(ex[rq.client]) # NoExc
    THEN Respond(500, NoExt, NoExt, Instantiate(ex[rq.client]))
    ELSE IF Instantiate(ex[rq.resource]) # NoExc
    THEN Respond(500, NoExt, NoExt, Instantiate(ex[rq.resource]))
    ELSE IF rq.matcher \notin DOMAIN mt
    THEN Respond(403, NoExt, NoExt, NoExc)
    ELSE IF Instantiate(mt[rq.matcher]) # NoExc
    THEN Respond(500, NoExt, NoExt, Instantiate(mt[rq.matcher]))
    ELSE LET c == GatherArg(ex[rq.client], rq, cfg) IN
         IF c.st = "raised" THEN Respond(500, c, NoExt, c.exc)
         ELSE LET r == GatherArg(ex[rq.resource], rq, cfg) IN
              IF r.st = "raised" THEN Respond(500, Unscheduled(c), r, r.exc)
              ELSE IF c.st = "returned"
              THEN Respond(500, c, Unscheduled(r), "TypeError")
              ELSE IF r.st = "returned"
              THEN Respond(500, Wrapped(c), r, "TypeError")
              ELSE [ pc |-> "gather", status |-> 0, client |-> Wrapped(c),
                     resource |-> Wrapped(r), exc |-> NoExc ]

(***************************************************************************)
(* Actions.  A handler runs without interruption between two awaits that   *)
(* suspend: the event loop is single-threaded.                             *)
(***************************************************************************)
\* a quota denial that leaves the redirect header out
QuotaDenyWithoutHeader == [status |-> 403, x_redirect_url |-> None, body |-> ""]

\* auth_check, lines 88-92: the response when the quota matcher returns False
QuotaDenyResponse ==
    [status |-> 403, x_redirect_url |-> "https://http.cat/429", body |-> ""]

\* the handler goes on at line 95 after the quota step let the request pass
Proceed(r, rq, o) ==
    \E t \in {TokenPath(rq, config)} :
    /\ pc' = [pc EXCEPT ![r] = t.pc]
    /\ req' = [req EXCEPT ![r] = rq]
    /\ ext' = [ext EXCEPT ![r] = [client |-> t.client, resource |-> t.resource]]
    /\ resp' = [resp EXCEPT ![r] = IF t.exc # NoExc THEN ErrorResponse(t.exc)
                                   ELSE [NoResp EXCEPT !.status = t.status]]
    /\ obs' = [obs EXCEPT ![r] = [o EXCEPT !.exc = t.exc]]

\* auth_check, lines 81-87: the quota step up to the call of the remote
\* checker.  await is true when the quota matcher suspends in that call;
\* otherwise obs holds what the step has decided
QuotaStep(rq, cfg) ==
    IF rq.route = "quota" /\ "quota" \in DOMAIN matchers(cfg)
    THEN LET q == QuotaMatcherExtract(rq, cfg)
             o == [NoObs EXCEPT !.quota_user = q.user, !.quota_doc = q.doc,
                                !.quota_exc = q.exc]
         IN  IF q.decided
             THEN [await |-> FALSE, obs |-> [o EXCEPT !.quota = "true"]]
             ELSE IF quota_checker(cfg) = "NullQuotaChecker"
             THEN [ await |-> FALSE,
                    obs |-> [o EXCEPT !.checker = NullQuotaChecker.val,
                                      !.quota = IF QuotaMatcherResult(NullQuotaChecker)
                                                THEN "true" ELSE "false"] ]
             ELSE [await |-> TRUE, obs |-> o]
    ELSE [await |-> FALSE, obs |-> NoObs]

\* auth_check, lines 69-132: a request arrives; the quota step of the
\* quota route runs first (81-92), its sub-extractors do not suspend, the
\* remote checker does, after it has read the clock
\* (redis_quota_checker.py:79)
auth_check(r, rq) ==
    /\ pc[r] = "idle"
    /\ UNCHANGED <<config, solr, now, quota, hist>>
    /\ LET q == QuotaStep(rq, config) IN
       IF q.await
       THEN /\ pc' = [pc EXCEPT ![r] = "quota_eval"]
            /\ req' = [req EXCEPT ![r] = rq]
            /\ obs' = [obs EXCEPT ![r] = [q.obs EXCEPT !.quota_ts = now]]
            /\ UNCHANGED <<ext, resp>>
       ELSE IF q.obs.quota = "false"
       THEN /\ pc' = [pc EXCEPT ![r] = "done"]
            /\ req' = [req EXCEPT ![r] = rq]
            /\ resp' = [resp EXCEPT ![r] = QuotaDenyResponse]
            /\ obs' = [obs EXCEPT ![r] = q.obs]
            /\ ext' = ext
       ELSE Proceed(r, rq, q.obs)

\* a call of the checker whose update of the store is lost
CheckedLost(u, d, outcome, t) ==
    [ quota |-> quota, hist |-> hist,
      checked |-> RedisQuotaChecker(outcome,
                    quotaCheckLua(quota[u], d, QuotaLimit, t, WindowSeconds).allowed) ]

\* arguments that leave the clock out
ArgsWithoutClock(d, t) == <<d, QuotaLimit, 0, WindowSeconds>>

\* arguments whose limit is one too high
ArgsLimitOffByOne(d, t) == <<d, QuotaLimit + 1, t, WindowSeconds>>

\* redis_quota_checker.py:80: the ARGV of the script,
\* (doc_id, quota_limit, current_timestamp, window_seconds)
ScriptArgs(d, t) == <<d, QuotaLimit, t, WindowSeconds>>

\* one call of RedisQuotaChecker.__call__(u, d) at time t: the state of the
\* store and the history after it, and what the checker returns or raises
Checked(u, d, outcome, t) ==
    LET before == quota[u]
        argv == ScriptArgs(d, t)
        res == quotaCheckLua(before, argv[1], argv[2], argv[3], argv[4])
        checked == RedisQuotaChecker(outcome, res.allowed)
    IN  IF outcome = "ran"
        THEN [ quota |-> [quota EXCEPT ![u] = res.st],
               hist |-> [ last |-> [user |-> u, doc |-> d, verdict |-> checked.val,
                                    before |-> before, t |-> t],
                          allowed_docs |->
                            [hist.allowed_docs EXCEPT ![u] =
                               (IF QuotaReset(before, t, WindowSeconds) # before
                                THEN {} ELSE @) \cup
                               (IF res.allowed = 1 THEN {d} ELSE {})] ],
               checked |-> checked ]
        ELSE [quota |-> quota, hist |-> hist, checked |-> checked]

\* RedisQuotaChecker.__call__ (53-102) and the rest of QuotaMatcher.__call__
\* and of the quota step: the script runs atomically in the store
RedisEval(r) ==
    /\ pc[r] = "quota_eval"
    /\ UNCHANGED <<config, solr, now>>
    /\ \E outcome \in EvalOutcomes :
         LET c == Checked(obs[r].quota_user, obs[r].quota_doc, outcome,
                          obs[r].quota_ts)
             o == [obs[r] EXCEPT
                     !.eval = outcome,
                     !.checker = IF c.checked.exc # NoExc THEN c.checked.exc
                                 ELSE c.checked.val,
                     !.quota_exc = c.checked.exc]
         IN  /\ quota' = c.quota
             /\ hist' = c.hist
             /\ IF QuotaMatcherResult(c.checked)
                THEN Proceed(r, req[r], [o EXCEPT !.quota = "true"])
                ELSE /\ pc' = [pc EXCEPT ![r] = "done"]
                     /\ resp' = [resp EXCEPT ![r] = QuotaDenyResponse]
                     /\ obs' = [obs EXCEPT ![r] = [o EXCEPT !.quota = "false"]]
                     /\ UNCHANGED <<req, ext>>

\* what an extractor's coroutine does when its task first runs: the set of
\* ways it may end; the manifest extractor suspends in its GET instead
RunOutcomes(e, rq, cfg) ==
    CASE e.cls = "NullExtractorStrategy" -> { NullExtractorStrategy }
      [] e.cls = "StaticSecretExtractor" -> { StaticSecretExtractor(cfg) }
      [] e.cls = "CookieBitmapExtractor" -> { CookieBitmapExtractor(rq, cfg) }
      [] e.cls = "SolrDocumentExtractor" -> SolrDocumentExtractor(rq, e.field)
      [] e.cls = "IIIFPresentationManifestExtractor" ->
           IF extract_url_from_x_original_uri(rq) = <<>>
           THEN { Ret(NoneTok) } ELSE {}

Finished(e, out) ==
    [e EXCEPT !.st = IF out.exc = NoExc THEN "done" ELSE "raised",
              !.val = out.val, !.exc = out.exc]

\* the event loop runs a task of the gather; tasks start in the order they
\* were created
RunTask(r, w) ==
    /\ ext[r][w].st = "created"
    /\ w = "resource" => ext[r]["client"].st # "created"
    /\ UNCHANGED <<config, solr, now, quota, pc, req, resp, hist>>
    /\ LET e == ext[r][w]
           outs == RunOutcomes(e, req[r], config)
       IN  IF outs = {}
           THEN /\ ext' = [ext EXCEPT ![r][w] =
                            [e EXCEPT !.st = "io",
                                      !.url = ManifestUrl(extract_url_from_x_original_uri(req[r]))]]
                /\ obs' = obs
           ELSE /\ \E out \in outs : ext' = [ext EXCEPT ![r][w] = Finished(e, out)]
                /\ obs' = [obs EXCEPT ![r].first_done = IF @ = None THEN w ELSE @]

\* the GET of a manifest is answered (or fails)
IoComplete(r, w) ==
    /\ ext[r][w].st = "io"
    /\ UNCHANGED <<config, solr, now, quota, pc, req, resp, hist>>
    /\ obs' = [obs EXCEPT ![r].first_done = IF @ = None THEN w ELSE @]
    /\ \E o \in FetchOutcomes :
         ext' = [ext EXCEPT ![r][w] =
                   [Finished(ext[r][w], IIIFAfterFetch(o)) EXCEPT !.fetch = o.kind]]

\* results handed over in the order in which the tasks ended
ResultsAsCompleted(e, first) ==
    IF first = "resource" THEN <<e["resource"].val, e["client"].val>>
    ELSE <<e["client"].val, e["resource"].val>>

\* the value of "await asyncio.gather(client, resource)" for the tasks e:
\* the results in the order of the arguments, whichever ended first
GatherResult(e, first) == <<e["client"].val, e["resource"].val>>

\* auth_check, lines 129-144: the await of asyncio.gather returns once both
\* tasks are done, or raises as soon as one task has raised; every task of
\* the gather has had its first run by then
Resume(r) ==
    /\ pc[r] = "gather"
    /\ \A w \in Sides : ext[r][w].st # "created"
    /\ UNCHANGED <<config, solr, now, quota, req, ext, hist>>
    /\ pc' = [pc EXCEPT ![r] = "done"]
    /\ LET raised == { w \in Sides : ext[r][w].st = "raised" }
           c == GatherResult(ext[r], obs[r].first_done)[1]
           t == GatherResult(ext[r], obs[r].first_done)[2]
       IN  IF raised # {}
           THEN \E w \in raised :
                  /\ resp' = [resp EXCEPT ![r] = ErrorResponse(ext[r][w].exc)]
                  /\ obs' = [obs EXCEPT ![r].exc = ext[r][w].exc]
           ELSE /\ \A w \in Sides : ext[r][w].st = "done"
                /\ IF c.kind = "none" \/ t.kind = "none"
                   THEN /\ resp' = [resp EXCEPT ![r].status = 403]
                        /\ obs' = obs
                   ELSE LET m == CallMatcher(matchers(config)[req[r].matcher].cls, c, t) IN
                        /\ resp' = [resp EXCEPT ![r] =
                                      IF m.exc # NoExc THEN ErrorResponse(m.exc)
                                      ELSE IF m.val
                                      THEN [NoResp EXCEPT !.status = 200]
                                      ELSE [NoResp EXCEPT !.status = 403]]
                        /\ obs' = [obs EXCEPT ![r].matcher_called = TRUE,
                                              ![r].matcher_args = <<c, t>>,
                                              ![r].matcher_ret = m.val,
                                              ![r].exc = m.exc]

\* an end of the request that takes the entries of the static secret out
\* of the container
FinishUnregistering(r) ==
    /\ pc[r] \in {"done", "cancelled"}
    /\ \A w \in Sides : ext[r][w].st \notin {"created", "io"}
    /\ UNCHANGED <<solr, now, quota, hist>>
    /\ config' = [config EXCEPT !.static_secret = None]
    /\ pc' = [pc EXCEPT ![r] = "idle"]
    /\ req' = [req EXCEPT ![r] = NoReq]
    /\ ext' = [ext EXCEPT ![r] = [w \in Sides |-> NoExt]]
    /\ resp' = [resp EXCEPT ![r] = NoResp]
    /\ obs' = [obs EXCEPT ![r] = NoObs]

\* the response has been sent and no task of the request is left: the
\* next request can be taken
Finish(r) ==
    /\ pc[r] \in {"done", "cancelled"}
    /\ \A w \in Sides : ext[r][w].st \notin {"created", "io"}
    /\ UNCHANGED <<config, solr, now, quota, hist>>
    /\ pc' = [pc EXCEPT ![r] = "idle"]
    /\ req' = [req EXCEPT ![r] = NoReq]
    /\ ext' = [ext EXCEPT ![r] = [w \in Sides |-> NoExt]]
    /\ resp' = [resp EXCEPT ![r] = NoResp]
    /\ obs' = [obs EXCEPT ![r] = NoObs]

\* one request at a time
Next ==
    \/ pc["r1"] = "idle" /\ \E rq \in Requests : auth_check("r1", rq)
    \/ RedisEval("r1")
    \/ \E w \in Sides : RunTask("r1", w)
    \/ \E w \in Sides : IoComplete("r1", w)
    \/ Resume("r1")
    \/ Finish("r1")

Spec == Init /\ [][Next]_vars

(***************************************************************************)
(* Cancellation of the handler's task while it is suspended in an await    *)
(* (server.py:87 and 129-132).  Task.cancel() cancels the future the task  *)
(* waits for.  For the future of asyncio.gather that means: as long as it  *)
(* is pending, cancel() every child that is not done; once it is done (a   *)
(* child raised, or all returned) nothing is passed on to the children and *)
(* the handler alone gets CancelledError at its next step.                 *)
(***************************************************************************)
\* the future of asyncio.gather has its result or exception
GatherDone(r) ==
    /\ \A w \in Sides : ext[r][w].st # "created"
    /\ \/ \E w \in Sides : ext[r][w].st = "raised"
       \/ \A w \in Sides : ext[r][w].st = "done"

\* a child task after cancel(): CancelledError is thrown into it at its
\* await, or at its first step; no extractor catches it
CancelledChild(e) ==
    IF e.st \in {"created", "io"}
    THEN [e EXCEPT !.st = "cancelled", !.exc = "CancelledError"]
    ELSE e

\* the handler is cancelled while it awaits the quota matcher: the script
\* may or may not have run in the store by then
CancelInQuota(r) ==
    /\ pc[r] = "quota_eval"
    /\ UNCHANGED <<config, solr, now, req, ext, resp>>
    /\ pc' = [pc EXCEPT ![r] = "cancelled"]
    /\ obs' = [obs EXCEPT ![r].cancelled = TRUE, ![r].exc = "CancelledError"]
    /\ \/ UNCHANGED <<quota, hist>>
       \/ LET c == Checked(obs[r].quota_user, obs[r].quota_doc, "ran",
                          obs[r].quota_ts) IN
          /\ quota' = c.quota
          /\ hist' = c.hist

\* the handler is cancelled while it awaits asyncio.gather
CancelInGather(r) ==
    /\ pc[r] = "gather"
    /\ UNCHANGED <<config, solr, now, quota, req, hist>>
    /\ IF GatherDone(r)
       THEN /\ pc' = [pc EXCEPT ![r] = "cancelled"]
            /\ obs' = [obs EXCEPT ![r].cancelled = TRUE,
                                  ![r].exc = "CancelledError"]
            /\ UNCHANGED <<ext, resp>>
       ELSE /\ ext' = [ext EXCEPT ![r] = [w \in Sides |-> CancelledChild(ext[r][w])]]
            /\ IF ext[r]["client"].st = "raised"
               THEN \* the child that raised completes the gather first
                    /\ pc' = [pc EXCEPT ![r] = "done"]
                    /\ resp' = [resp EXCEPT ![r] =
                                  ErrorResponse(ext[r]["client"].exc)]
                    /\ obs' = [obs EXCEPT ![r].cancelled = TRUE,
                                          ![r].exc = ext[r]["client"].exc]
               ELSE /\ pc' = [pc EXCEPT ![r] = "cancelled"]
                    /\ obs' = [obs EXCEPT ![r].cancelled = TRUE,
                                          ![r].exc = "CancelledError"]
                    /\ resp' = resp

NextCancel ==
    \/ Next
    \/ CancelInQuota("r1")
    \/ CancelInGather("r1")

SpecCancel == Init /\ [][NextCancel]_vars

(***************************************************************************)
(* The quota checker on its own: calls of RedisQuotaChecker.__call__ for   *)
(* any user and doc id, and the passing of time.                           *)
(***************************************************************************)
FullConfig == CHOOSE cfg \in Configs : Cardinality(Features(cfg)) = 5

InitQuota == Init /\ config = FullConfig

Check(u, d) ==
    /\ quota_checker(config) = "RedisQuotaChecker"
    /\ UNCHANGED <<config, solr, now, pc, req, ext, resp, obs>>
    /\ \E outcome \in EvalOutcomes :
         LET c == Checked(u, d, outcome, now) IN
         /\ quota' = c.quota
         /\ hist' = c.hist

\* int(time()) moves on
Tick ==
    /\ now < MaxTime
    /\ now' = now + 1
    /\ UNCHANGED <<config, solr, quota, pc, req, ext, resp, obs, hist>>

NextQuota ==
    \/ \E u \in Users, d \in Docs : Check(u, d)
    \/ Tick

SpecQuota == InitQuota /\ [][NextQuota]_vars

(***************************************************************************)
(* Two requests of the quota route in flight at once, and the clock.  The  *)
(* part of the pipeline after the quota step is kept to one route.         *)
(***************************************************************************)
NextConcurrent ==
    \/ \E r \in Slots :
         /\ pc[r] = "idle"
         /\ \E rq \in { q \in Requests : /\ q.route = "quota"
                                         /\ q.matcher = "equality"
                                         /\ q.client = "static-secret"
                                         /\ q.resource = "static-secret"
                                         /\ q.cookie # NoCookie
                                         /\ q.x_forwarded_host # None
                                         /\ q.x_original_uri # <<>> } :
              auth_check(r, rq)
    \/ \E r \in Slots : RedisEval(r)
    \/ \E r \in Slots, w \in Sides : RunTask(r, w)
    \/ \E r \in Slots : Resume(r)
    \/ \E r \in Slots : Finish(r)
    \/ Tick

SpecConcurrent == InitQuota /\ [][NextConcurrent]_vars

(***************************************************************************)
(* Two requests of the plain route in flight at once, with extractors that *)
(* end at once (the index lookup, the static secret) and one that suspends *)
(* (the manifest GET), so that either side may end first.                  *)
(***************************************************************************)
NextInFlight ==
    \/ \E r \in Slots :
         /\ pc[r] = "idle"
         /\ \E rq \in { q \in Requests :
                          /\ q.route = "plain"
                          /\ q.matcher \in {"equality", "bitwise-and"}
                          /\ q.client \in {"iiif-presentation-manifest",
                                           "content-item-image-bitmap"}
                          /\ q.resource \in {"content-item-image-bitmap",
                                             "static-secret"}
                          /\ q.x_original_uri # <<>>
                          /\ q.x_forwarded_host # None } :
              auth_check(r, rq)
    \/ \E r \in Slots, w \in Sides : RunTask(r, w)
    \/ \E r \in Slots, w \in Sides : IoComplete(r, w)
    \/ \E r \in Slots : Resume(r)
    \/ \E r \in Slots : Finish(r)

SpecInFlight == InitQuota /\ [][NextInFlight]_vars

(***************************************************************************)
(* The two routes side by side without a store (redis.url unset): a        *)
(* request of the quota route is handled, then the same request on the     *)
(* plain route.                                                            *)
(***************************************************************************)
InitTwin == Init /\ config.redis_url = None

NextTwin ==
    \/ /\ pc["r1"] = "idle" /\ pc["r2"] = "idle"
       /\ \E rq \in { q \in Requests : q.route = "quota" } : auth_check("r1", rq)
    \/ /\ pc["r1"] = "done" /\ pc["r2"] = "idle"
       /\ auth_check("r2", [req["r1"] EXCEPT !.route = "plain"])
    \/ \E r \in Slots, w \in Sides : RunTask(r, w)
    \/ \E r \in Slots, w \in Sides : IoComplete(r, w)
    \/ \E r \in Slots : Resume(r)
    \/ Finish("r2")
    \/ pc["r2"] = "idle" /\ Finish("r1")

SpecTwin == InitTwin /\ [][NextTwin]_vars

(***************************************************************************)
(* The SolrService on its own: calls of post_query and the passing of time.*)
(***************************************************************************)
PostQuery(collection, body) ==
    /\ solr.calls < MaxCalls
    /\ \E net \in PostOutcomes :
         solr' = post_query(solr, config, collection, body, net, now)
    /\ UNCHANGED <<config, now, quota, pc, req, ext, resp, obs, hist>>

NextCache ==
    \/ \E c \in {"ci", "cj"}, b \in PostBodies : PostQuery(c, b)
    \/ Tick

SpecCache == InitQuota /\ [][NextCache]_vars

(***************************************************************************)
(* The extractors and the helpers of the request headers on their own,     *)
(* constructed with the parameters of the full configuration and called    *)
(* with one request, absent and malformed inputs included.                 *)
(***************************************************************************)
ExtractInputs ==
    { Request("plain", "", "", "", <<>>, NoCookie, uri, fwd, strip) :
        uri \in { <<>>, <<"/">>, <<"/", "d1", "/", "i">>,
                  <<"/", "d3", "-", "p7", "/", "i">>, <<"/", "/", "d2">>,
                  <<"/", "pre", "/", "d1", "/", "i">>, <<"/", "f", ".", "x">>,
                  <<"/", "g">>, <<"/", "h">>, <<"/", "n">>,
                  <<"/", "/", "etc", "/", "f">>,
                  <<"/", ".", ".", "/", "etc", "/", "f">> },
        fwd \in [ host : {None, "", "h"}, proto : {None, "https", "http", "HTTPS"},
                  port : {None, "", "80", "443", "8080"}, http_host : {None, "h"} ],
        strip \in { <<>>, <<"/", "pre">>, <<"/", "x", ",", "/", "pre">>,
                    <<"/", ",", "/", "pre">>, <<",", "/", "pre">>,
                    <<"/", "pre", ",", "/", "d1">>, <<"/", "pre", "/", "d1", "/", "i">> } }
    \cup
    { Request("plain", "", "", "", <<>>, cookie, <<>>, fwd, <<>>) :
        cookie \in { Jwt("k1", FALSE, "https://h", "u1", <<3>>),
                     Jwt("k2", FALSE, "https://h", "u1", <<3>>),
                     Jwt("k1", TRUE, "https://h", "u1", <<3>>),
                     Jwt("k1", FALSE, "https://h:8080", "u1", <<1, 0>>),
                     Jwt("k1", FALSE, "https://h", None, <<>>),
                     [Jwt("k1", FALSE, "https://h", "u1", <<>>) EXCEPT !.has_bitmap = FALSE],
                     [Jwt("k1", FALSE, "https://h", "u1", <<>>) EXCEPT !.b64 = FALSE],
                     Jwt("k1", FALSE, "https://h", "u1", <<1, 0, 0, 0, 0, 0, 0, 0, 0>>) },
        fwd \in [ host : {None, "", "h"}, proto : {None, "https", "http"},
                  port : {None, "", "80", "443", "8080"}, http_host : {"h"} ] }
    \cup
    { Request("plain", "", "", "", auth, NoCookie, <<>>,
              [host |-> None, proto |-> None, port |-> None, http_host |-> "h"], <<>>) :
        auth \in { <<"Bearer">>, <<"Basic", "s1">>, <<"bearer", "s1">>,
                   <<"Bearer", "s1", "s2">> } }

InitExtract ==
    /\ config = FullConfig
    /\ solr = NoSolr
    /\ now = 0
    /\ quota = [u \in Users |-> EmptyQuota]
    /\ pc = [r \in Slots |-> "idle"]
    /\ \E rq \in ExtractInputs : req = [r1 |-> rq, r2 |-> NoReq]
    /\ ext = [r \in Slots |-> [w \in Sides |-> NoExt]]
    /\ resp = [r \in Slots |-> NoResp]
    /\ obs = [r \in Slots |-> NoObs]
    /\ hist = NoHist

\* the ways a call of the extractor class cls with the request may end
Called(cls, rq, cfg) ==
    CASE cls = "BearerTokenExtractor" -> { BearerTokenExtractor(rq) }
      [] cls = "ManifestWithSecretExtractor" -> { ManifestWithSecretExtractor(rq, cfg) }
      [] cls = "CookieUserIdExtractor" -> { CookieUserIdExtractor(rq, cfg) }
      [] cls = "IIIFPresentationManifestExtractor" ->
           IF extract_url_from_x_original_uri(rq) = <<>> THEN { Ret(NoneTok) }
           ELSE { IIIFAfterFetch(o) : o \in FetchOutcomes }
      [] cls = "SolrDocumentExtractor" ->
           SolrDocumentExtractor(rq, "rights_bm_get_img_l")
           \cup SolrDocumentExtractor(rq, "rights_bm_explore_l")
      [] OTHER -> RunOutcomes([NoExt EXCEPT !.cls = cls], rq, cfg)

\* an extractor is called with the request and runs to its end
CallExtractor(r, cls) ==
    /\ pc[r] = "idle"
    /\ req[r] # NoReq
    /\ pc' = [pc EXCEPT ![r] = "done"]
    /\ \E out \in Called(cls, req[r], config) :
         ext' = [ext EXCEPT ![r]["client"] =
                   [ Finished([NoExt EXCEPT !.cls = cls], out) EXCEPT !.url =
                       IF cls = "IIIFPresentationManifestExtractor"
                          /\ extract_url_from_x_original_uri(req[r]) # <<>>
                       THEN ManifestUrl(extract_url_from_x_original_uri(req[r]))
                       ELSE <<>> ]]
    /\ UNCHANGED <<config, solr, now, quota, req, resp, obs, hist>>

\* a helper of the request headers is called; its result is kept in url,
\* or in val when it is a string
CallHelper(r, fn) ==
    /\ pc[r] = "idle"
    /\ req[r] # NoReq
    /\ pc' = [pc EXCEPT ![r] = "done"]
    /\ ext' = [ext EXCEPT ![r]["client"] =
                 [NoExt EXCEPT
                    !.cls = fn, !.st = "done",
                    !.url = CASE fn = "extract_url_from_x_original_uri" ->
                                   extract_url_from_x_original_uri(req[r])
                              [] fn = "extract_id_from_x_original_uri_with_iiif" ->
                                   extract_id_from_x_original_uri_with_iiif(req[r])
                              [] fn = "IIIFUriDocIdExtractor" ->
                                   IIIFUriDocIdExtractor(req[r])
                              [] OTHER -> <<>>,
                    !.val = IF fn = "audience" /\ Audience(req[r]) # None
                            THEN StrTok(Audience(req[r])) ELSE NoneTok]]
    /\ UNCHANGED <<config, solr, now, quota, req, resp, obs, hist>>

NextExtract ==
    \/ \E cls \in { "BearerTokenExtractor", "StaticSecretExtractor",
                     "NullExtractorStrategy", "ManifestWithSecretExtractor",
                     "CookieBitmapExtractor", "CookieUserIdExtractor",
                     "SolrDocumentExtractor",
                     "IIIFPresentationManifestExtractor" } :
         CallExtractor("r1", cls)
    \/ \E fn \in { "extract_url_from_x_original_uri",
                    "extract_id_from_x_original_uri_with_iiif",
                    "IIIFUriDocIdExtractor", "audience" } :
         CallHelper("r1", fn)

SpecExtract == InitExtract /\ [][NextExtract]_vars

(***************************************************************************)
(* Properties.                                                             *)
(***************************************************************************)
\* the three path parameters of the request resolve in the registries
Resolves(r) ==
    /\ req[r].matcher \in DOMAIN matchers(config)
    /\ req[r].client \in DOMAIN extractors(config)
    /\ req[r].resource \in DOMAIN extractors(config)

\* an extractor call that returned a token, not None
ReturnedToken(e) == e.st \in {"returned", "done"} /\ e.val.kind # "none"

\* an extractor (its constructor or its call) or the matcher raised
StrategyRaised(r) ==
    \/ \E w \in Sides : ext[r][w].st = "raised"
    \/ obs[r].matcher_called /\ obs[r].exc # NoExc
    \/ /\ Resolves(r)
       /\ \/ Instantiate(extractors(config)[req[r].client]) # NoExc
          \/ Instantiate(extractors(config)[req[r].resource]) # NoExc
          \/ Instantiate(matchers(config)[req[r].matcher]) # NoExc

\* C1: a handled request in which no extractor or matcher raised and the
\* quota step did not deny is answered 200 if the three names resolve, both
\* extractors returned a token and the matcher returned true for the two
\* tokens, and 403 in every other case.
C1_VerdictFunction ==
    \A r \in Slots :
        (pc[r] = "done" /\ ~StrategyRaised(r) /\ obs[r].quota # "false") =>
            resp[r].status =
                IF /\ Resolves(r)
                   /\ ReturnedToken(ext[r]["client"])
                   /\ ReturnedToken(ext[r]["resource"])
                   /\ obs[r].matcher_called
                   /\ obs[r].matcher_args =
                        <<ext[r]["client"].val, ext[r]["resource"].val>>
                   /\ obs[r].matcher_ret
                THEN 200 ELSE 403

\* C2: the response carries X-Redirect-Url: https://http.cat/429 exactly
\* when the request came through the quota route, a matcher named "quota"
\* is registered and that matcher returned false; the status is then 403
\* and neither extractor nor the path matcher was invoked.  Without the
\* quota step (plain route, or no "quota" entry) no quota matcher runs.
C2_RedirectHeader ==
    \A r \in Slots :
        /\ resp[r].x_redirect_url \in {None, "https://http.cat/429"}
        /\ resp[r].x_redirect_url = "https://http.cat/429" <=>
             /\ req[r].route = "quota"
             /\ "quota" \in DOMAIN matchers(config)
             /\ obs[r].quota = "false"
        /\ resp[r].x_redirect_url = "https://http.cat/429" =>
             /\ resp[r].status = 403
             /\ \A w \in Sides : ext[r][w] = NoExt
             /\ ~obs[r].matcher_called
        /\ (req[r].route # "quota" \/ "quota" \notin DOMAIN matchers(config)) =>
             obs[r].quota = "skipped"

\* a request was denied by the quota step
C2_Witness ==
    /\ pc["r1"] = "done"
    /\ req["r1"].route = "quota"
    /\ obs["r1"].quota = "false"
    /\ resp["r1"] = QuotaDenyResponse

\* C5: the quota matcher returns false only when a user id and a doc id
\* were extracted and the checker returned quota_reached; when an id is
\* missing, or a sub-extractor or the checker raises, or the store answers
\* with an error, it returns true and the request goes on to the token
\* decision.
C5_QuotaFailsOpen ==
    \A r \in Slots :
        LET u == CookieUserIdExtractor(req[r], config)
            d == IIIFUriDocIdExtractor(req[r])
            open == \/ u.exc # NoExc
                    \/ u.val.kind = "none"
                    \/ d = <<>>
                    \/ obs[r].eval \in {"ResponseError", "ConnectionError"}
        IN  /\ obs[r].quota = "false" =>
                /\ u.exc = NoExc /\ u.val.kind = "str" /\ u.val.s # ""
                /\ d # <<>>
                /\ obs[r].eval = "ran"
                /\ obs[r].checker = "quota_reached"
            /\ (req[r].route = "quota" /\ pc[r] \in {"gather", "done"} /\ open) =>
                /\ obs[r].quota = "true"
                /\ resp[r].x_redirect_url = None
                /\ pc[r] = "done" => resp[r].status # 0

\* the store was unreachable for a request with both ids, and the request
\* was answered by the token decision
C5_Witness ==
    /\ pc["r1"] = "done"
    /\ obs["r1"].quota_user = "u1"
    /\ obs["r1"].quota_doc # <<>>
    /\ obs["r1"].eval = "ConnectionError"
    /\ obs["r1"].quota = "true"
    /\ resp["r1"].status = 200

\* C3: two consecutive runs of Check(u, d) in the same window, with no
\* other call for u between them, give the same verdict, and the second
\* does not increment count(u).
C3_QuotaIdempotent ==
    [][ \A u \in Users :
          ( /\ hist.last.user = u
            /\ hist'.last.user = u
            /\ hist'.last.doc = hist.last.doc
            /\ <<quota, hist>>' # <<quota, hist>>
            /\ quota'[u].first_access = quota[u].first_access ) =>
          ( /\ hist'.last.verdict = hist.last.verdict
            /\ quota'[u].count = quota[u].count ) ]_vars

\* C4: within one window the checker allows a user at most quotaLimit
\* distinct doc ids.
C4_QuotaBound ==
    \A u \in Users : Cardinality(hist.allowed_docs[u]) <= QuotaLimit

\* an extractor call that has ended, with a value or with an exception
Completed(e) == e.st \in {"returned", "done", "raised"}

\* C6: both extractors are started before the handler awaits a result, and
\* the matcher is invoked and the response produced only after both
\* extractors of the request have completed.
C6_JoinBeforeMatch ==
    \A r \in Slots :
        (ext[r]["client"].cls # "" /\ ext[r]["resource"].cls # "") =>
            /\ pc[r] = "gather" => \A w \in Sides : ext[r][w].st # "none"
            /\ (obs[r].matcher_called \/ resp[r].status # 0) =>
                 \A w \in Sides : Completed(ext[r][w])

NonNetworkExceptions == {"TypeError", "ValueError", "AttributeError"}

\* C7: when an extractor or the matcher raises a non-network exception,
\* the handler answers 403.
C7_ExceptionsBecomeDeny ==
    \A r \in Slots :
        ( /\ pc[r] = "done"
          /\ \/ \E w \in Sides : /\ ext[r][w].st = "raised"
                                 /\ ext[r][w].exc \in NonNetworkExceptions
                                 /\ obs[r].exc = ext[r][w].exc
             \/ obs[r].matcher_called /\ obs[r].exc \in NonNetworkExceptions ) =>
        resp[r].status = 403

\* C8: with static_secret = s configured, /equality/static-secret/bearer-token
\* with Authorization: Bearer t is answered 200 if t = s and 403 if not.
C8_EqualityRoute ==
    \A r \in Slots :
        ( /\ pc[r] = "done"
          /\ req[r].route = "plain"
          /\ req[r].matcher = "equality"
          /\ req[r].client = "static-secret"
          /\ req[r].resource = "bearer-token"
          /\ config.static_secret # None
          /\ Len(req[r].authorization) = 2
          /\ req[r].authorization[1] = "Bearer" ) =>
        resp[r].status =
            IF req[r].authorization[2] = config.static_secret THEN 200 ELSE 403

\* C9: with the cookie and the index options configured,
\* /bitwise-and/cookie-bitmap/content-item-image-bitmap with a valid cookie
\* of bitmap c, for a document whose rights_bm_get_img_l is r, is answered
\* 200 if c AND r is not 0 and 403 if it is.
C9_BitwiseRoute ==
    \A r \in Slots :
        LET docs == QueryMatches(extract_id_with_wildcard_page_suffix(req[r])) IN
        ( /\ pc[r] = "done"
          /\ req[r].route = "plain"
          /\ req[r].matcher = "bitwise-and"
          /\ req[r].client = "cookie-bitmap"
          /\ req[r].resource = "content-item-image-bitmap"
          /\ is_cookie_bitmap_enabled(config)
          /\ is_solr_content_item_enabled(config)
          /\ req[r].cookie.present
          /\ validate_jwt(req[r].cookie, config.jwt_secret, Audience(req[r]),
                          config.jwt_verify_audience).ok
          /\ req[r].cookie.has_bitmap
          /\ extract_id_with_wildcard_page_suffix(req[r]) # <<>>
          /\ Cardinality(docs) = 1
          /\ \A doc \in docs : doc.rights_bm_get_img_l >= 0 ) =>
        \A doc \in docs :
            resp[r].status =
                IF IsAccessAllowed(BitMask64FromBytes(req[r].cookie.bitmap),
                                   BitMask64FromInt(doc.rights_bm_get_img_l))
                THEN 200 ELSE 403

\* the names of the request that resolve to a null variant
NullSelected(r) ==
    { req[r][k] : k \in { k \in {"client", "resource"} :
        /\ req[r][k] \in DOMAIN extractors(config)
        /\ extractors(config)[req[r][k]].cls = "NullExtractorStrategy" } }
    \cup
    { req[r][k] : k \in { k \in {"matcher"} :
        /\ req[r][k] \in DOMAIN matchers(config)
        /\ matchers(config)[req[r][k]].cls = "NullMatcherStrategy" } }

\* C10: a name whose prerequisites are absent still resolves, and every
\* request that selects it is denied.
C10_NullVariantDenies ==
    /\ DOMAIN extractors(config) = ExtractorNames
    /\ DOMAIN matchers(config) = MatcherNames
    /\ \A r \in Slots :
         (pc[r] = "done" /\ obs[r].quota # "false" /\ NullSelected(r) # {}) =>
             resp[r].status = 403

(***************************************************************************)
(* C11.  Cancellation: once the request has been cancelled while it was    *)
(* suspended, no extractor task of the request is left outstanding, the    *)
(* matcher has not been called and the request does not end in 200.        *)
(***************************************************************************)
C11_Cancellation ==
    \A r \in Slots :
      obs[r].cancelled =>
        /\ \A w \in Sides : ext[r][w].st \notin {"created", "io"}
        /\ ~obs[r].matcher_called
        /\ resp[r].status # 200

C13_StatusOnly ==
    \A r \in Slots :
      resp[r].status # 0 =>
        /\ resp[r].status \in {200, 403} \cup 500..599
        /\ resp[r].body = ""

(***************************************************************************)
(* C14.  Extractors are total on bad input: a call returns a token or      *)
(* nothing; only the network errors of the index and IIIF extractors       *)
(* propagate.                                                              *)
(***************************************************************************)
C14_ExtractorsTotal ==
    \A r \in Slots :
      ext[r]["client"].st = "raised" =>
        /\ ext[r]["client"].cls \in { "SolrDocumentExtractor",
                                     "IIIFPresentationManifestExtractor" }
        /\ ext[r]["client"].exc \in {"HTTPError", "RequestError"}

(***************************************************************************)
(* C15.  IIIF manifest fetch outcomes: a 404 makes the extractor return    *)
(* nothing and the handler answer 403 (unless something else raised);      *)
(* a 5xx answer or a failure at network level propagates out of the        *)
(* extractor and the handler answers 500.                                  *)
(***************************************************************************)
C15_ManifestFetchOutcomes ==
    \A r \in Slots : \A w \in Sides :
      LET e == ext[r][w] IN
      /\ e.fetch = "status_404" =>
            /\ e.st = "done" /\ e.val = NoneTok
            /\ (pc[r] = "done" /\ obs[r].exc = NoExc) => resp[r].status = 403
      /\ e.fetch \in {"status_500", "request_error"} =>
            /\ e.st = "raised"
            /\ pc[r] = "done" => resp[r].status = 500

(***************************************************************************)
(* C16.  Index response cache: a post_query whose collection and body      *)
(* (up to the order of its keys) were answered by the index less than      *)
(* CacheTtl ago, and whose entry is still in the cache, returns that       *)
(* answer without a network call and leaves the cache as it is; a call     *)
(* that fails stores nothing.                                              *)
(***************************************************************************)
C16_IndexResponseCache ==
    [][ solr'.calls # solr.calls =>
          LET l == solr'.last
              kept == /\ l.id \in DOMAIN solr.served
                      /\ now < solr.served[l.id].at + CacheTtl
                      /\ \E i \in DOMAIN solr.cache :
                            solr.cache[i].key = solr.served[l.id].key
          IN  /\ kept => /\ ~l.network
                         /\ l.exc = NoExc
                         /\ l.result = solr.served[l.id].result
                         /\ solr'.cache = solr.cache
              /\ l.exc # NoExc => solr'.cache = solr.cache
      ]_vars

\* a call was answered from the cache although its body lists the keys in
\* another order than the call that was stored, and the index has been
\* asked since
C16_Witness ==
    /\ ~solr.last.network
    /\ solr.last.id \in DOMAIN solr.served
    /\ solr.last.body # solr.served[solr.last.id].body
    /\ solr.last.result = solr.served[solr.last.id].result
    /\ now > 0

C18_UrlFromHostHeader ==
    \A r \in Slots :
      LET e == ext[r]["client"]
          rq == req[r]
          scheme == IF rq.x_forwarded_proto = "https" THEN "https" ELSE "http"
          dir == SubSeq(rq.x_original_uri, 1, LastIndexOf(rq.x_original_uri, "/"))
      IN  ( /\ rq.host = "h"
            /\ rq.x_forwarded_host = None
            /\ rq.x_original_uri = <<"/", "d1", "/", "i">> ) =>
            /\ e.cls = "extract_url_from_x_original_uri" =>
                  e.url = <<scheme, "://", "h">> \o rq.x_original_uri
            /\ e.cls = "IIIFPresentationManifestExtractor" =>
                  e.url = <<scheme, "://", "h">> \o dir \o <<"manifest.json">>

(***************************************************************************)
(* C19.  Audience reconstruction in both cookie extractors: with           *)
(* x-forwarded-proto p and x-forwarded-host h, the audience is p://h when  *)
(* x-forwarded-port is "80", "443", empty or absent, and p://h:port for    *)
(* every other port; a cookie is accepted exactly when its audience is     *)
(* that one.                                                               *)
(***************************************************************************)
C19_Audience ==
    \A r \in Slots :
      LET e == ext[r]["client"]
          rq == req[r]
          p == rq.x_forwarded_proto
          h == rq.x_forwarded_host
          expected == IF rq.x_forwarded_port \in {"80", "443", "", None}
                      THEN p \o "://" \o h
                      ELSE p \o "://" \o h \o ":" \o rq.x_forwarded_port
      IN  (p \notin {None, ""} /\ h \notin {None, ""}) =>
            /\ e.cls = "audience" => e.val = StrTok(expected)
            /\ ( /\ e.cls \in {"CookieUserIdExtractor", "CookieBitmapExtractor"}
                 /\ rq.cookie.present /\ rq.cookie.key = config.jwt_secret
                 /\ ~rq.cookie.expired /\ rq.cookie.sub # None
                 /\ rq.cookie.has_bitmap /\ rq.cookie.b64
                 /\ Len(rq.cookie.bitmap) <= MaxMaskBytes ) =>
                  (e.st = "done" /\ e.val # NoneTok) <=> rq.cookie.aud = expected

\* a cookie issued for https://h:8080 is accepted on port 8080
C19_Witness ==
    /\ ext["r1"]["client"].cls = "CookieUserIdExtractor"
    /\ ext["r1"]["client"].val = StrTok("u1")
    /\ req["r1"].x_forwarded_port = "8080"
    /\ req["r1"].cookie.aud = "https://h:8080"

(***************************************************************************)
(* C20.  extract_id_from_x_original_uri_with_iiif: the first entry of the  *)
(* comma-separated x-prefix-strip list that is a prefix of the path is     *)
(* removed and no further entry is applied; the result is the first        *)
(* non-empty segment of what remains, or nothing when the header is absent *)
(* or there is no such segment.                                            *)
(***************************************************************************)
C20_PrefixStrip ==
    \A r \in Slots :
      LET e == ext[r]["client"]
          path == req[r].x_original_uri
          entries == IF req[r].x_prefix_strip = <<>> THEN <<>>
                     ELSE Split(req[r].x_prefix_strip, ",")
          matching == { i \in DOMAIN entries : StartsWith(path, entries[i]) }
          first == CHOOSE i \in matching : \A j \in matching : i <= j
          rest == IF matching = {} THEN path
                  ELSE DropFirst(path, Len(entries[first]))
          segments == SelectSeq(Split(rest, "/"), LAMBDA x : x # <<>>)
      IN  e.cls \in {"extract_id_from_x_original_uri_with_iiif",
                     "IIIFUriDocIdExtractor"} =>
            e.url = IF path = <<>> \/ segments = <<>> THEN <<>> ELSE segments[1]

\* the list holds two entries that match one after the other; only the
\* first is removed
C20_Witness ==
    /\ ext["r1"]["client"].cls = "extract_id_from_x_original_uri_with_iiif"
    /\ req["r1"].x_original_uri = <<"/", "pre", "/", "d1", "/", "i">>
    /\ req["r1"].x_prefix_strip = <<"/", "pre", ",", "/", "d1">>
    /\ ext["r1"]["client"].url = <<"d1">>

(***************************************************************************)
(* C21.  Name resolution precedes the quota step: a request of the quota   *)
(* route whose matcher or extractor name is not registered is denied       *)
(* without the quota matcher being invoked; handling it changes no user's  *)
(* quota state and its 403 carries no X-Redirect-Url header.               *)
(***************************************************************************)
C21_ResolutionBeforeQuota ==
    [][ \A r \in Slots :
          (req'[r].route = "quota" /\ ~Resolves(r)') =>
            /\ quota' = quota
            /\ obs'[r].quota = "skipped"
            /\ obs'[r].checker = "not_called"
            /\ resp'[r].x_redirect_url = None
            /\ pc'[r] = "done" => resp'[r].status = 403
      ]_vars

(***************************************************************************)
(* C22.  Positional order is independent of completion order: whichever    *)
(* extractor ends first, the matcher's first argument is the token of the  *)
(* extractor named by the client path parameter and its second argument    *)
(* the token of the one named by the resource path parameter, both         *)
(* extracted from the matcher's own request, also with two requests in     *)
(* flight.                                                                 *)
(***************************************************************************)
C22_PositionalOrder ==
    \A r \in Slots :
      obs[r].matcher_called =>
        \A i \in {1, 2} :
          LET side == <<"client", "resource">>[i]
              p == extractors(config)[req[r][side]]
              e == ext[r][side]
          IN  /\ e.cls = p.cls
              /\ obs[r].matcher_args[i] = e.val
              /\ IF p.cls = "IIIFPresentationManifestExtractor"
                 THEN /\ e.url = ManifestUrl(extract_url_from_x_original_uri(req[r]))
                      /\ e.val \in { IIIFAfterFetch(o).val : o \in FetchOutcomes }
                 ELSE e.val \in { o.val : o \in RunOutcomes(
                                     [NoExt EXCEPT !.cls = p.cls, !.field = p.field],
                                     req[r], config) }

\* the resource extractor ended first, the matcher got the client token
\* first, while another request for another document was in flight
C22_Witness ==
    /\ obs["r1"].matcher_called
    /\ obs["r1"].first_done = "resource"
    /\ req["r1"].client = "iiif-presentation-manifest"
    /\ obs["r1"].matcher_args[1] = ext["r1"]["client"].val
    /\ obs["r1"].matcher_args[1] # obs["r1"].matcher_args[2]
    /\ pc["r2"] = "gather"
    /\ req["r2"].x_original_uri # req["r1"].x_original_uri

\* the window of the state the last run of the script found had elapsed at
\* the time the run was given, or the user had no state
LastRunReset ==
    \/ hist.last.before.first_access = -1
    \/ hist.last.t - hist.last.before.first_access >= WindowSeconds

(***************************************************************************)
(* C23.  Window reset: a Check(u, d) that runs with first_access(u) absent *)
(* or now - first_access(u) >= windowSeconds clears the seen set and the   *)
(* count of u and sets first_access(u) to now before d is evaluated, so the*)
(* call is allowed and leaves count(u) = 1 with d alone in the seen set,   *)
(* whatever the previous window held; a Check inside the window leaves     *)
(* first_access(u) unchanged and clears nothing.                           *)
(***************************************************************************)
C23_WindowReset ==
    LET l == hist.last
        after == quota[l.user]
    IN  l.user # None =>
          IF LastRunReset
          THEN /\ after = [bloom |-> BloomBits(l.doc), count |-> 1,
                           first_access |-> l.t]
               /\ l.verdict = "below_quota"
          ELSE /\ after.first_access = l.before.first_access
               /\ l.before.bloom \subseteq after.bloom
               /\ after.count >= l.before.count

\* the window had elapsed for a user who had used the quota and had seen
\* the doc id before
C23_Witness ==
    /\ hist.last.user = "u1"
    /\ hist.last.before.first_access # -1
    /\ LastRunReset
    /\ hist.last.before.count = QuotaLimit
    /\ BloomExists(hist.last.before.bloom, hist.last.doc)
    /\ quota["u1"].count = 1

(***************************************************************************)
(* C24.  Counter invariant: 0 <= count(u) <= quotaLimit for every user in  *)
(* every reachable quota state; count(u) changes only by +1 on an allowed  *)
(* Check of a doc id that is not in the seen set, or by being cleared at a *)
(* window reset; a denied Check leaves count(u) unchanged.                 *)
(***************************************************************************)
C24_CounterInvariant ==
    /\ \A u \in Users : 0 <= quota[u].count /\ quota[u].count <= QuotaLimit
    /\ LET l == hist.last
           after == quota[l.user]
       IN  l.user # None =>
             /\ l.verdict = "quota_reached" => after.count = l.before.count
             /\ (after.count # l.before.count /\ ~LastRunReset) =>
                   /\ after.count = l.before.count + 1
                   /\ l.verdict = "below_quota"
                   /\ ~BloomExists(l.before.bloom, l.doc)

\* a Check was denied at the limit, and the count stayed at the limit
C24_Witness ==
    /\ hist.last.user = "u1"
    /\ hist.last.verdict = "quota_reached"
    /\ hist.last.before.count = QuotaLimit
    /\ quota["u1"].count = QuotaLimit

(***************************************************************************)
(* C25.  Registries are read-only after startup: no step of the handling   *)
(* of a request, whether it ends allowed, denied or with an exception,     *)
(* changes the set of names of the extractor registry or of the matcher    *)
(* registry, or the strategy a name maps to.                               *)
(***************************************************************************)
C25_RegistriesReadOnly ==
    [][ /\ DOMAIN extractors(config)' = DOMAIN extractors(config)
        /\ DOMAIN matchers(config)' = DOMAIN matchers(config)
        /\ extractors(config)' = extractors(config)
        /\ matchers(config)' = matchers(config)
      ]_vars

\* a request has been handled whose handler raised, with the static
\* secret registered
C25_Witness ==
    /\ pc["r1"] = "done"
    /\ resp["r1"].status = 500
    /\ obs["r1"].exc # NoExc
    /\ extractors(config)["static-secret"].cls = "StaticSecretExtractor"

(***************************************************************************)
(* C26.  Quota is consumed only by allowed requests: a request of the      *)
(* quota route that ends in 403 through the token path (an unregistered    *)
(* name, a nil client or resource token, or a matcher that returns false)  *)
(* leaves the seen set and the count of the requesting user as they were   *)
(* before the request.                                                     *)
(***************************************************************************)
C26_QuotaOnlyWhenAllowed ==
    \A r \in Slots :
      ( /\ pc[r] = "done"
        /\ req[r].route = "quota"
        /\ resp[r].status = 403
        /\ obs[r].quota = "true"
        /\ obs[r].eval = "ran"
        /\ hist.last.user = obs[r].quota_user ) =>
        /\ quota[obs[r].quota_user].bloom = hist.last.before.bloom
        /\ quota[obs[r].quota_user].count = hist.last.before.count

(***************************************************************************)
(* C27.  Manifest reads stay under basePath: for every x-original-uri,     *)
(* also one with ".." segments or with more than one leading "/", the file *)
(* ManifestWithSecretExtractor tests for existence and opens lies inside   *)
(* basePath.                                                               *)
(***************************************************************************)
C27_ManifestUnderBasePath ==
    \A r \in Slots :
      ( /\ ext[r]["client"].cls = "ManifestWithSecretExtractor"
        /\ req[r].x_original_uri # <<>> ) =>
        LET file == ManifestFile(config, req[r].x_original_uri)
            base == PathParts(BasePath(config))
        IN  Len(file) > Len(base) /\ SubSeq(file, 1, Len(base)) = base

(***************************************************************************)
(* C28.  No extractor task outlives its request: when one of the two       *)
(* extractors of a request raised, the other one is not running any more   *)
(* once the handler has finished the request; it was cancelled or had      *)
(* completed before the response was produced.                             *)
(***************************************************************************)
C28_NoTaskOutlivesRequest ==
    \A r \in Slots :
      (pc[r] = "done" /\ \E w \in Sides : ext[r][w].st = "raised") =>
        \A w \in Sides : ext[r][w].st \notin {"created", "io"}

(***************************************************************************)
(* C29.  With the null quota checker the quota route is transparent: when  *)
(* redis.url is not configured, a request answered on the quota route gets *)
(* the status and the headers the plain route gives for the same path      *)
(* parameters and request contents (and the same outcomes of the two       *)
(* extractors); the quota step never denies.                               *)
(***************************************************************************)
C29_NullQuotaTransparent ==
    /\ (pc["r1"] = "done" /\ req["r1"].route = "quota") =>
          /\ obs["r1"].quota = "true"
          /\ resp["r1"].x_redirect_url = None
    /\ ( /\ pc["r1"] = "done" /\ pc["r2"] = "done"
         /\ req["r1"].route = "quota"
         /\ req["r2"] = [req["r1"] EXCEPT !.route = "plain"]
         /\ ext["r1"] = ext["r2"] ) =>
          /\ resp["r1"].status = resp["r2"].status
          /\ resp["r1"].x_redirect_url = resp["r2"].x_redirect_url

\* the null checker was called for a user and a doc id, and both routes
\* answered
C29_Witness ==
    /\ pc["r1"] = "done" /\ pc["r2"] = "done"
    /\ req["r1"].route = "quota" /\ req["r2"].route = "plain"
    /\ obs["r1"].quota_user = "u1"
    /\ obs["r1"].checker = "below_quota"
    /\ ext["r1"] = ext["r2"]
    /\ resp["r1"].status = resp["r2"].status
    /\ resp["r1"].status # 0

(***************************************************************************)
(* C30.  The request-level quota matcher cannot grant access as a path     *)
(* matcher: a request whose matcher path parameter is "quota" is never     *)
(* answered 200, whatever the two extractors return.                       *)
(***************************************************************************)
C30_QuotaNeverGrants ==
    \A r \in Slots :
      req[r].matcher = "quota" =>
        /\ resp[r].status # 200
        /\ obs[r].matcher_called => ~obs[r].matcher_ret

\* both extractors returned a token and the quota matcher was called with
\* the two
C30_Witness ==
    /\ pc["r1"] = "done"
    /\ req["r1"].matcher = "quota"
    /\ obs["r1"].matcher_called
    /\ obs["r1"].matcher_args[1].kind # "none"
    /\ obs["r1"].matcher_args[2].kind # "none"
    /\ resp["r1"].status = 500

=============================================================================
